---- MODULE Spec2Model ----
(***************************************************************************)
(* Model of the Q_Project backtesting code.                                *)
(*                                                                         *)
(*   Spec         BaseExecutor.execute_signals, one loop iteration per     *)
(*                step (src/src/execution/base_executor.py)                *)
(*   SpecStrategy SmaCross / BuyAndHold driven by the backtrader engine:   *)
(*                next() and notify_order() (src/strategy/*.py)            *)
(*   SpecSignals  SMAStrategy.generate_signals as a function of the bar    *)
(*                table (src/src/strategies/sma_strategy.py)               *)
(*   SpecTables   SMAStrategy built from a config dict, then called once   *)
(*                on a bar table that may be incomplete, empty or unsorted *)
(*   SpecRisk     BaseRiskManager: construction and its checks             *)
(*                (src/src/risk_management/base_risk_manager.py)           *)
(*                                                                         *)
(* Money and share quantities are integers.  The Python code uses floats;  *)
(* rounding of float arithmetic is outside this model.                     *)
(***************************************************************************)
EXTENDS Integers, Sequences, FiniteSets, TLC

VARIABLES
    \* ---- BaseExecutor ----
    executor_config,     \* self.config of the executor
    _position,           \* self._position
    _cash,               \* self._cash
    execution_results,   \* the list execute_signals builds
    n_rows,              \* len(signals) of the call in progress
    row,                 \* 1-based index of the next signals row
    pc,                  \* "loop" while iterrows() runs, "returned" after
    acct,                \* history: account before/after each result row
    \* ---- SmaCross / BuyAndHold under backtrader ----
    strategy_class,      \* BacktestRunner.strategy_class
    order,               \* self.order: None or the order's ref
    buy_executed,        \* BuyAndHold.buy_executed
    position,            \* self.position.size
    crossover,           \* self.crossover[0]
    broker_cash,         \* broker cash, in 1/1000 of a currency unit
    orders,              \* every order created so far, by ref
    bar,                 \* number of next() calls so far
    \* ---- SMAStrategy.generate_signals ----
    config,              \* self.config: short_period, long_period
    data,                \* the bar table of the last call, rows as given
    signals,             \* the signal column returned, by sorted row
    given_config,        \* the config dict SMAStrategy(...) is called with
    sma_strategy,        \* "none", or "built" once the constructor returned
    columns,             \* the lower-cased column names of the bar table
    raised,              \* None, or the exception the last call raised
    \* ---- BaseRiskManager ----
    risk_config,         \* the config dict the risk manager is built from
    risk_manager,        \* <<>> or <<the instance's fields>>
    risk_result,         \* <<>> or <<the last call with what it returned>>
    \* ---- single calls of helper methods and of run_backtest ----
    last_call,           \* <<>> or <<the last call with what it returned>>
    \* ---- BacktestManager._run_comparison ----
    feed_len,            \* number of bars in the PandasData feed
    feed_idx,            \* the feed's cursor: bars delivered since its reset
    runner_pc,           \* per runner: "none", "built", "running", "done"
    seen                 \* per runner: the bars its strategy was given

execVars == <<executor_config, _position, _cash, execution_results, n_rows, row, pc, acct>>
stratVars == <<strategy_class, order, buy_executed, position, crossover,
               broker_cash, orders, bar>>
sigVars == <<config, data, signals>>
callVars == <<given_config, sma_strategy, columns, raised>>
riskVars == <<risk_config, risk_manager, risk_result>>
fnVars == <<last_call>>
cmpVars == <<feed_len, feed_idx, runner_pc, seen>>
vars == <<execVars, stratVars, sigVars, callVars, riskVars, fnVars, cmpVars>>

None == "None"
\* self.order is None, or <<ref>> for the order it holds
NoOrder == <<>>

Abs(x) == IF x < 0 THEN -x ELSE x

\* Python dicts over the given keys, and dict.get(key, default)
Dicts(keys, values) == UNION {[K -> values] : K \in SUBSET keys}
Get(dict, key, default) == IF key \in DOMAIN dict THEN dict[key] ELSE default

(***************************************************************************)
(* Bounds and input domains                                                *)
(***************************************************************************)
MaxRows == 3
\* next() calls of one backtest run
MaxNextCalls == 4
\* orders one run may create
MaxOrders == 3
\* rows of a bar table; timestamps are 1..MaxBars
MaxBars == 4
\* largest long_period
MaxPeriod == 3
\* rows of a bar table given to a newly built strategy
MaxTableRows == 2

\* values of the 'signal' column
SignalValues == {-1, 0, 1}
\* values of the 'position' column of a signals row
PositionColumn == {-600, 0, 400, 600}
\* close prices of the prices table
ClosePrices == {100, 200}
\* what the abstract execute_order of a subclass may do
ExecuteOrderOutcomes == {"filled", "raised"}

\* commission rate 0.001, as parts per thousand
CommissionPerMille == 1

(***************************************************************************)
(* BaseExecutor                                                            *)
(***************************************************************************)
InitialCash == 100000

\* config dicts an executor is constructed with: 'symbol' alone, or with the
\* documented option 'initial_capital'
ExecutorConfigs ==
    {[symbol |-> "AAPL"], [symbol |-> "AAPL", initial_capital |-> 50000]}

\* execute_signals line 100-101
OrderQuantity(position_col) == Abs(position_col)
OrderSide(signal) == IF signal > 0 THEN "buy" ELSE "sell"

\* lines 117-123: the account after execute_order returned
AccountAfterFillNoSellCredit(acc, side, quantity, current_price) ==
    IF side = "buy"
    THEN [position |-> acc.position + quantity,
          cash |-> acc.cash - quantity * current_price]
    ELSE [position |-> acc.position - quantity,
          cash |-> acc.cash]

AccountAfterFill(acc, side, quantity, current_price) ==
    IF side = "buy"
    THEN [position |-> acc.position + quantity,
          cash |-> acc.cash - quantity * current_price]
    ELSE [position |-> acc.position - quantity,
          cash |-> acc.cash + quantity * current_price]

\* lines 125-135: the account after execute_order raised
AccountAfterRaiseUpdated(acc, side, quantity, current_price) ==
    AccountAfterFill(acc, side, quantity, current_price)

AccountAfterRaise(acc, side, quantity, current_price) == acc

\* lines 106-115 and 126-135: the dict appended to execution_results
ExecutedResult(timestamp, side, quantity, current_price, signal) ==
    [timestamp |-> timestamp, side |-> side, quantity |-> quantity,
     price |-> current_price, signal |-> signal, status |-> "executed",
     error |-> None]

FailedResult(timestamp, side, quantity, current_price, signal) ==
    [timestamp |-> timestamp, side |-> side, quantity |-> quantity,
     price |-> current_price, signal |-> signal, status |-> "failed",
     error |-> "str(e)"]

\* __init__, lines 19-28: the config is stored, the account is set from
\* literals
InitExecutor ==
    /\ executor_config \in ExecutorConfigs
    /\ _position = 0
    /\ _cash = InitialCash
    /\ execution_results = <<>>
    /\ n_rows \in 0..MaxRows
    /\ row = 1
    /\ pc = "loop"
    /\ acct = <<>>

\* One iteration of `for timestamp, row in signals.iterrows()`.
ExecuteSignalsRow ==
    /\ pc = "loop"
    /\ row <= n_rows
    /\ row' = row + 1
    /\ UNCHANGED <<executor_config, n_rows, pc>>
    /\ \E signal \in SignalValues, position_col \in PositionColumn,
          in_prices \in BOOLEAN, current_price \in ClosePrices,
          outcome \in ExecuteOrderOutcomes :
         IF signal # 0 /\ in_prices
         THEN LET quantity == OrderQuantity(position_col)
                  side == OrderSide(signal)
                  before == [position |-> _position, cash |-> _cash]
                  after == IF outcome = "filled"
                           THEN AccountAfterFill(before, side, quantity, current_price)
                           ELSE AccountAfterRaise(before, side, quantity, current_price)
                  result == IF outcome = "filled"
                            THEN ExecutedResult(row, side, quantity, current_price, signal)
                            ELSE FailedResult(row, side, quantity, current_price, signal)
              IN /\ execution_results' = Append(execution_results, result)
                 /\ _position' = after.position
                 /\ _cash' = after.cash
                 /\ acct' = Append(acct, [before |-> before, after |-> after])
         ELSE UNCHANGED <<_position, _cash, execution_results, acct>>

\* lines 137-140: the loop is exhausted and the results are returned
ExecuteSignalsReturn ==
    /\ pc = "loop"
    /\ row > n_rows
    /\ pc' = "returned"
    /\ UNCHANGED <<executor_config, _position, _cash, execution_results,
                   n_rows, row, acct>>

\* lines 142-154, with current_price the value get_current_price returns
get_portfolio_status(current_price) ==
    [position |-> _position,
     cash |-> _cash,
     total_value |-> _cash + Abs(_position) * current_price]

(***************************************************************************)
(* Claims about BaseExecutor.execute_signals (properties of Spec)          *)
(***************************************************************************)
ResultIdx == 1..Len(execution_results)

IsExecuted(i, side) ==
    /\ execution_results[i].status = "executed"
    /\ execution_results[i].side = side

Notional(i) == execution_results[i].quantity * execution_results[i].price

\* C1: cash is >= 0 after every executed buy, and a buy whose cost exceeds
\* the available cash is recorded as not executed and leaves cash and
\* position as they were.
C1_CashNeverNegative ==
    \A i \in ResultIdx :
        /\ IsExecuted(i, "buy") => acct[i].after.cash >= 0
        /\ (execution_results[i].side = "buy" /\ Notional(i) > acct[i].before.cash)
              => /\ execution_results[i].status # "executed"
                 /\ acct[i].after = acct[i].before

\* C7: an executed buy of q at p directly followed by an executed sell of q
\* at p restores cash and position to their values before the buy.
C7_RoundTrip ==
    \A i \in ResultIdx :
        (/\ i + 1 \in ResultIdx
         /\ IsExecuted(i, "buy")
         /\ IsExecuted(i + 1, "sell")
         /\ execution_results[i + 1].quantity = execution_results[i].quantity
         /\ execution_results[i + 1].price = execution_results[i].price)
        => acct[i + 1].after = acct[i].before

\* a round trip of a positive quantity that starts from a non-flat account
C7_Witness ==
    \E i \in ResultIdx :
        /\ i + 1 \in ResultIdx
        /\ IsExecuted(i, "buy")
        /\ IsExecuted(i + 1, "sell")
        /\ execution_results[i].quantity > 0
        /\ execution_results[i + 1].quantity = execution_results[i].quantity
        /\ execution_results[i + 1].price = execution_results[i].price
        /\ acct[i].before.position # 0
        /\ acct[i].before.cash # InitialCash

\* C8: every executed order charges commission = quantity * price * 0.001:
\* a buy lowers cash by quantity*price + commission, a sell raises it by
\* quantity*price - commission (amounts compared in thousandths).
C8_CommissionCharged ==
    \A i \in ResultIdx :
        /\ IsExecuted(i, "buy") =>
              1000 * (acct[i].before.cash - acct[i].after.cash)
                  = (1000 + CommissionPerMille) * Notional(i)
        /\ IsExecuted(i, "sell") =>
              1000 * (acct[i].after.cash - acct[i].before.cash)
                  = (1000 - CommissionPerMille) * Notional(i)

\* C9: a row that yields an order of quantity 0 is recorded as rejected with
\* reason "invalid quantity", not as executed, and leaves cash and position
\* unchanged.
C9_ZeroQuantityRejected ==
    \A i \in ResultIdx :
        execution_results[i].quantity = 0 =>
            /\ execution_results[i].status = "rejected"
            /\ execution_results[i].error = "invalid quantity"
            /\ acct[i].after = acct[i].before

\* C10: when execute_order raises for a row, the row is recorded as 'failed'
\* with the error text, cash and position stay as they were, the loop goes
\* on with the remaining rows, and it returns only after the last row.
C10_FailedRowIsLocal ==
    /\ \A i \in ResultIdx :
          execution_results[i].status = "failed" =>
              /\ execution_results[i].error # None
              /\ acct[i].after = acct[i].before
              /\ acct[i].after = IF i = Len(acct)
                                 THEN [position |-> _position, cash |-> _cash]
                                 ELSE acct[i + 1].before
    /\ (pc = "loop" /\ row <= n_rows) => ENABLED ExecuteSignalsRow
    /\ pc = "returned" => row = n_rows + 1

\* a failed row of a non-zero order, met with an open position, followed by
\* a later row that was executed, in a call that has returned
C10_Witness ==
    /\ pc = "returned"
    /\ \E i \in ResultIdx :
          /\ i + 1 \in ResultIdx
          /\ execution_results[i].status = "failed"
          /\ execution_results[i].quantity > 0
          /\ acct[i].before.position # 0
          /\ execution_results[i + 1].status = "executed"
          /\ execution_results[i + 1].timestamp > execution_results[i].timestamp

RECURSIVE ExecutedQuantity(_, _)
\* total quantity of the executed rows of `side` among the first n results
ExecutedQuantity(side, n) ==
    IF n = 0 THEN 0
    ELSE ExecutedQuantity(side, n - 1)
            + (IF IsExecuted(n, side) THEN execution_results[n].quantity ELSE 0)

RECURSIVE ExecutedNotional(_, _)
\* total quantity*price of the executed rows of `side` among the first n
ExecutedNotional(side, n) ==
    IF n = 0 THEN 0
    ELSE ExecutedNotional(side, n - 1)
            + (IF IsExecuted(n, side) THEN Notional(n) ELSE 0)

\* C26: after any sequence of signal rows, _position is the executed buy
\* quantity minus the executed sell quantity, and _cash is 100000 minus the
\* notional of the executed buys plus the notional of the executed sells;
\* skipped rows and failed rows contribute nothing.
C26_AccountIsSumOfExecuted ==
    LET n == Len(execution_results)
    IN /\ _position = ExecutedQuantity("buy", n) - ExecutedQuantity("sell", n)
       /\ _cash = 100000 - ExecutedNotional("buy", n) + ExecutedNotional("sell", n)

\* three rows went by: one skipped, one failed with a non-zero order, one
\* executed sell of a non-zero quantity
C26_Witness ==
    /\ row = 4
    /\ Len(execution_results) = 2
    /\ \E i, j \in ResultIdx :
          /\ execution_results[i].status = "failed"
          /\ execution_results[i].quantity > 0
          /\ IsExecuted(j, "sell")
          /\ execution_results[j].quantity > 0

\* C11: no redundant orders in execute_signals: execute_order is not called
\* for a +1 signal while the position is already long, nor for a -1 signal
\* while it is already short.
C11_NoRedundantOrders ==
    \A i \in ResultIdx :
        /\ execution_results[i].signal > 0 => acct[i].before.position <= 0
        /\ execution_results[i].signal < 0 => acct[i].before.position >= 0

\* C12: a newly constructed executor has position 0 and cash equal to the
\* configured initial_capital, 100000 when the option is absent.
C12_InitialAccount ==
    (pc = "loop" /\ row = 1) =>
        /\ _position = 0
        /\ _cash = IF "initial_capital" \in DOMAIN executor_config
                   THEN executor_config.initial_capital
                   ELSE 100000

\* C13: in every reachable account state, short positions included,
\* get_portfolio_status reports total_value = cash + position * current_price.
C13_TotalValue ==
    \A current_price \in ClosePrices :
        get_portfolio_status(current_price).total_value
            = _cash + _position * current_price

(***************************************************************************)
(* SmaCross and BuyAndHold under the backtrader engine                     *)
(*                                                                         *)
(* The engine and its broker are library code: the model lets the broker   *)
(* report any legal status progression of an order, at any time between    *)
(* next() calls.  A market order is filled in full or not at all.          *)
(***************************************************************************)
StrategyClasses == {"SmaCross", "BuyAndHold"}
\* open/close prices of the bars fed to the run
BarPrices == {100, 300}
\* values of the CrossOver indicator
CrossOverValues == {-1, 0, 1}

\* BacktestRunner.setup: broker.setcash(100000.0)
BrokerInitialCash == 100000

FinalStatuses == {"Completed", "Canceled", "Margin", "Rejected"}
LiveStatuses == {"Created", "Submitted", "Accepted"}

\* the statuses the broker may report next for an order
BrokerNextStatuses(status) ==
    CASE status = "Created" -> {"Submitted"}
      [] status = "Submitted" -> {"Accepted", "Margin", "Rejected", "Canceled"}
      [] status = "Accepted" -> {"Completed", "Margin", "Canceled"}
      [] OTHER -> {}

\* cash (in thousandths) a fill of `size` at `price` moves, commission included
FillCost(side, size, price) ==
    IF side = "buy"
    THEN size * price * (1000 + CommissionPerMille)
    ELSE -(size * price * (1000 - CommissionPerMille))

\* `if self.order: return` (sma_cross.py line 68, buy_hold.py line 71)
OrderPendingIgnored(o) == FALSE

OrderPending(o) == o # NoOrder

\* SmaCross.next lines 72-79: what is submitted on this bar
SmaCrossDecisionSellWhenFlat(pos, cross) ==
    IF pos = 0 /\ cross > 0 THEN "buy"
    ELSE IF cross < 0 THEN "sell"
    ELSE "none"

SmaCrossDecision(pos, cross) ==
    IF pos = 0
    THEN IF cross > 0 THEN "buy" ELSE "none"
    ELSE IF cross < 0 THEN "sell" ELSE "none"

\* BuyAndHold.next lines 78-80: int(cash / price), cash in thousandths
BuyAndHoldSize(cash, price) == cash \div (price * 1000)

\* notify_order: the value of self.order after the callback
SelfOrderAfterNotifyKeptOnMargin(o, status) ==
    IF status \in {"Submitted", "Accepted"} THEN o
    ELSE IF status \in {"Completed"} THEN NoOrder
    ELSE IF status \in {"Canceled", "Rejected"} THEN NoOrder
    ELSE o

SelfOrderAfterNotify(o, status) ==
    IF status \in {"Submitted", "Accepted"} THEN o
    ELSE IF status \in {"Completed"} THEN NoOrder
    ELSE IF status \in {"Canceled", "Margin", "Rejected"} THEN NoOrder
    ELSE o

NewOrder(side, size) ==
    [ref |-> Len(orders) + 1, side |-> side, size |-> size,
     status |-> "Created", created_bar |-> bar + 1]

InitStrategy ==
    /\ strategy_class \in StrategyClasses
    /\ order = NoOrder
    /\ buy_executed = FALSE
    /\ position = 0
    /\ crossover = 0
    /\ broker_cash = BrokerInitialCash * 1000
    /\ orders = <<>>
    /\ bar = 0

\* SmaCross.next, with the indicator value of the bar
SmaCrossNext ==
    /\ strategy_class = "SmaCross"
    /\ bar < MaxNextCalls
    /\ bar' = bar + 1
    /\ \E c \in CrossOverValues :
         /\ crossover' = c
         /\ LET decision == SmaCrossDecision(position, c)
            IN IF OrderPending(order) \/ decision = "none" \/ Len(orders) >= MaxOrders
               THEN UNCHANGED <<order, orders>>
               ELSE /\ orders' = Append(orders, NewOrder(decision, 1))
                    /\ order' = <<Len(orders) + 1>>
    /\ UNCHANGED <<strategy_class, buy_executed, position, broker_cash>>

\* BuyAndHold.next, with the close of the bar
BuyAndHoldNext ==
    /\ strategy_class = "BuyAndHold"
    /\ bar < MaxNextCalls
    /\ bar' = bar + 1
    /\ \E price \in BarPrices :
         LET size == BuyAndHoldSize(broker_cash, price)
         IN IF OrderPending(order) \/ buy_executed \/ position # 0
               \/ ~(size > 0) \/ Len(orders) >= MaxOrders
            THEN UNCHANGED <<order, orders>>
            ELSE /\ orders' = Append(orders, NewOrder("buy", size))
                 /\ order' = <<Len(orders) + 1>>
    /\ UNCHANGED <<strategy_class, buy_executed, position, crossover, broker_cash>>

\* The broker moves order `ref` to `status` (filling it at `price` when the
\* status is Completed) and the strategy's notify_order runs.
NotifyOrder(ref, status, price) ==
    LET o == orders[ref]
        cost == FillCost(o.side, o.size, price)
    IN /\ status \in BrokerNextStatuses(o.status)
       /\ status = "Completed" => cost <= broker_cash
       /\ orders' = [orders EXCEPT ![ref].status = status]
       /\ IF status = "Completed"
          THEN /\ position' = IF o.side = "buy" THEN position + o.size
                                                ELSE position - o.size
               /\ broker_cash' = broker_cash - cost
          ELSE UNCHANGED <<position, broker_cash>>
       /\ order' = SelfOrderAfterNotify(order, status)
       /\ UNCHANGED <<strategy_class, crossover, bar>>

SmaCrossNotifyOrder ==
    /\ strategy_class = "SmaCross"
    /\ \E ref \in 1..Len(orders), price \in BarPrices,
          status \in FinalStatuses \cup LiveStatuses :
         NotifyOrder(ref, status, price)
    /\ UNCHANGED buy_executed

BuyAndHoldNotifyOrder ==
    /\ strategy_class = "BuyAndHold"
    /\ \E ref \in 1..Len(orders), price \in BarPrices,
          status \in FinalStatuses \cup LiveStatuses :
         /\ NotifyOrder(ref, status, price)
         /\ buy_executed' = IF status = "Completed" /\ orders[ref].side = "buy"
                            THEN TRUE ELSE buy_executed

(***************************************************************************)
(* Claims about SmaCross and BuyAndHold (properties of SpecStrategy)       *)
(***************************************************************************)
Outstanding == {ref \in 1..Len(orders) : orders[ref].status \notin FinalStatuses}

\* C2: next() submits nothing while self.order is set, so at most one order
\* is submitted and not yet reported Completed, Canceled, Margin or Rejected.
C2_OneOutstandingOrder ==
    /\ Cardinality(Outstanding) <= 1
    /\ Outstanding # {} => (order # NoOrder /\ order[1] \in Outstanding)

\* a second order is outstanding after the first was resolved, and next() has
\* been called again while it is pending
C2_Witness ==
    /\ Len(orders) >= 2
    /\ order = <<Len(orders)>>
    /\ orders[order[1]].status \in LiveStatuses
    /\ bar > orders[order[1]].created_bar

\* C3: in a SmaCross run the position is never negative; a buy is issued
\* only when flat with crossover > 0, a sell only when holding with
\* crossover < 0, and a completed sell returns the position to zero.
C3_LongFlatOnly ==
    /\ [](strategy_class = "SmaCross" => position >= 0)
    /\ [][(strategy_class = "SmaCross" /\ Len(orders') > Len(orders)) =>
             LET o == orders'[Len(orders')]
             IN /\ o.side = "buy" => (position = 0 /\ crossover' > 0)
                /\ o.side = "sell" => (position # 0 /\ crossover' < 0)]_vars
    /\ [][(strategy_class = "SmaCross" /\ position' < position) => position' = 0]_vars

\* a sell was completed after a buy, and the strategy is flat again
C3_Witness ==
    /\ strategy_class = "SmaCross"
    /\ position = 0
    /\ \E ref \in 1..Len(orders) :
          orders[ref].side = "sell" /\ orders[ref].status = "Completed"

\* C27: every submitted order eventually leaves the pending state: a final
\* status makes notify_order reset self.order to None, while Submitted and
\* Accepted leave self.order as it is; so no order blocks the strategy for
\* ever (given that the broker goes on reporting on a live order).
C27_OrderEventuallyCleared ==
    /\ (order # NoOrder) ~> (order = NoOrder)
    /\ [](\A ref \in 1..Len(orders) :
            IF orders[ref].status \in FinalStatuses
            THEN order # <<ref>>
            ELSE order = <<ref>>)

\* a first order ended as Margin, Canceled or Rejected, self.order was
\* cleared and a second order has been submitted since
C27_Witness ==
    /\ Len(orders) >= 2
    /\ orders[1].status \in {"Margin", "Canceled", "Rejected"}
    /\ order = <<2>>

\* C30: with cash 100000 and commission 0.001, whenever the close is at most
\* the available cash, the order of int(cash / close) shares that
\* BuyAndHold.next submits passes the broker's cash test size * price *
\* (1 + commission) <= cash, so that it is filled.
C30_BuyAndHoldOrderFilled ==
    (/\ strategy_class = "BuyAndHold"
     /\ ~OrderPending(order)
     /\ ~buy_executed
     /\ position = 0)
    => \A price \in BarPrices :
          (price * 1000 <= broker_cash /\ BuyAndHoldSize(broker_cash, price) > 0)
              => FillCost("buy", BuyAndHoldSize(broker_cash, price), price)
                    <= broker_cash

\* C16: BuyAndHold submits its buy on the first bar only; on every later bar
\* next() submits no order, and the strategy never submits a sell.
C16_BuyOnFirstBarOnly ==
    strategy_class = "BuyAndHold" =>
        \A ref \in 1..Len(orders) :
            /\ orders[ref].side = "buy"
            /\ orders[ref].created_bar = 1

(***************************************************************************)
(* SMAStrategy.generate_signals                                            *)
(*                                                                         *)
(* A bar table is a sequence of rows [ts, close] in the order given, with  *)
(* distinct timestamps.  The other OHLCV columns are present and unused.   *)
(***************************************************************************)
\* close prices of the bar table
Closes == {90, 100, 110}
Timestamps == 1..MaxBars

\* _validate_config: short_period and long_period positive integers,
\* short_period < long_period
ValidConfigs ==
    {c \in [short_period : 1..MaxPeriod, long_period : 1..MaxPeriod] :
        c.short_period < c.long_period}

\* preprocess_data: data.sort_index()
RECURSIVE InsertByTs(_, _)
InsertByTs(sorted, r) ==
    IF sorted = <<>> THEN <<r>>
    ELSE IF r.ts < Head(sorted).ts THEN <<r>> \o sorted
    ELSE <<Head(sorted)>> \o InsertByTs(Tail(sorted), r)

RECURSIVE SortIndex(_)
SortIndex(d) ==
    IF d = <<>> THEN <<>>
    ELSE InsertByTs(SortIndex(SubSeq(d, 1, Len(d) - 1)), d[Len(d)])

\* rolling(window, min_periods=1): the rows of the window ending at row i
\* (a window one row short)
RollingFirstNarrow(i, window) == IF i - window + 2 < 1 THEN 1 ELSE i - window + 2

RollingFirst(i, window) == IF i - window + 1 < 1 THEN 1 ELSE i - window + 1

\* (the window of rolling(center=True) reaches one row ahead)
RollingLastCentered(n, i) == IF i + 1 > n THEN n ELSE i + 1

RollingLast(n, i) == i

RECURSIVE SumRows(_, _, _)
SumRows(sorted, from, to) ==
    IF from > to THEN 0 ELSE sorted[to].close + SumRows(sorted, from, to - 1)

RollingSum(sorted, i, window) ==
    SumRows(sorted, RollingFirst(i, window), RollingLast(Len(sorted), i))

RollingCount(sorted, i, window) ==
    RollingLast(Len(sorted), i) - RollingFirst(i, window) + 1

\* the sma_diff column, short_sma - long_sma; the entry of row i is multiplied
\* by the two window counts of the row (both positive), so that it is an
\* integer with the sign of the difference
sma_diff_at(sorted, i) ==
    RollingSum(sorted, i, config.short_period) * RollingCount(sorted, i, config.long_period)
    - RollingSum(sorted, i, config.long_period) * RollingCount(sorted, i, config.short_period)

RECURSIVE sma_diff_upto(_, _)
sma_diff_upto(sorted, n) ==
    IF n = 0 THEN <<>>
    ELSE Append(sma_diff_upto(sorted, n - 1), sma_diff_at(sorted, n))

sma_diff(sorted) == sma_diff_upto(sorted, Len(sorted))

\* the two np.where passes at row i; sma_diff_prev = sma_diff.shift(1) is NaN
\* at the first row, and every comparison with NaN is False
SignalAtStrictPrev(diff, i) ==
    LET golden == i > 1 /\ diff[i - 1] < 0 /\ diff[i] > 0
        dead == i > 1 /\ diff[i - 1] > 0 /\ diff[i] < 0
        pass1 == IF golden THEN 1 ELSE 0
    IN IF dead THEN -1 ELSE pass1

SignalAtSustained(diff, i) ==
    LET golden == diff[i] > 0
        dead == i > 1 /\ diff[i - 1] >= 0 /\ diff[i] < 0
        pass1 == IF golden THEN 1 ELSE 0
    IN IF dead THEN -1 ELSE pass1

SignalAt(diff, i) ==
    LET golden == i > 1 /\ diff[i - 1] <= 0 /\ diff[i] > 0
        dead == i > 1 /\ diff[i - 1] >= 0 /\ diff[i] < 0
        pass1 == IF golden THEN 1 ELSE 0
    IN IF dead THEN -1 ELSE pass1

\* the 'signal' column of the frame generate_signals returns
generate_signals(d) ==
    LET processed_data == SortIndex(d)
        diff == sma_diff(processed_data)
    IN [i \in 1..Len(processed_data) |-> SignalAt(diff, i)]

InitSignals ==
    /\ config \in ValidConfigs
    /\ data = <<>>
    /\ signals = <<>>

\* the frames of the next call: one more row, the last row dropped, or two
\* neighbouring rows exchanged
ExtendedFrames(d) ==
    IF Len(d) >= MaxBars THEN {}
    ELSE {Append(d, [ts |-> t, close |-> c]) :
            t \in Timestamps \ {d[j].ts : j \in 1..Len(d)}, c \in Closes}

SwappedFrames(d) ==
    {[d EXCEPT ![j] = d[j + 1], ![j + 1] = d[j]] : j \in 1..(Len(d) - 1)}

\* generate_signals is called on a table that has one more bar
GenerateSignalsExtended ==
    /\ \E d \in ExtendedFrames(data) :
         /\ data' = d
         /\ signals' = generate_signals(d)
    /\ UNCHANGED config

\* generate_signals is called on the table without its last row
GenerateSignalsTruncated ==
    /\ Len(data) >= 2
    /\ data' = SubSeq(data, 1, Len(data) - 1)
    /\ signals' = generate_signals(data')
    /\ UNCHANGED config

\* generate_signals is called on the same rows in another order
GenerateSignalsReordered ==
    /\ \E d \in SwappedFrames(data) :
         /\ data' = d
         /\ signals' = generate_signals(d)
    /\ UNCHANGED config

(***************************************************************************)
(* Claims about generate_signals (properties of SpecSignals)               *)
(***************************************************************************)
BarIdx == 1..Len(signals)

\* sum of the closes of the last `window` bars up to bar i, and their number
TrailingIdx(i, window) == {j \in 1..i : j > i - window}
RECURSIVE SumCloses(_, _)
SumCloses(bars, idx) ==
    IF idx = {} THEN 0
    ELSE LET j == CHOOSE x \in idx : TRUE
         IN bars[j].close + SumCloses(bars, idx \ {j})

\* the sign of (short trailing mean - long trailing mean) at bar i of `bars`
DiffSignAt(bars, i) ==
    LET s == TrailingIdx(i, config.short_period)
        l == TrailingIdx(i, config.long_period)
        num == SumCloses(bars, s) * Cardinality(l) - SumCloses(bars, l) * Cardinality(s)
    IN IF num > 0 THEN 1 ELSE IF num < 0 THEN -1 ELSE 0

\* the signs of the difference at the bars of the table, in timestamp order
RECURSIVE DiffSignsUpTo(_, _)
DiffSignsUpTo(bars, n) ==
    IF n = 0 THEN <<>>
    ELSE Append(DiffSignsUpTo(bars, n - 1), DiffSignAt(bars, n))

DiffSigns == DiffSignsUpTo(SortIndex(data), Len(data))

\* C4: at every bar i the signal is +1 exactly when diff[i-1] <= 0 and
\* diff[i] > 0, -1 exactly when diff[i-1] >= 0 and diff[i] < 0, 0 otherwise.
C4_CrossoverRule ==
    LET diff == DiffSigns
    IN \A i \in BarIdx :
        LET up == i > 1 /\ diff[i - 1] <= 0 /\ diff[i] > 0
            down == i > 1 /\ diff[i - 1] >= 0 /\ diff[i] < 0
        IN /\ signals[i] = 1 <=> up
           /\ signals[i] = -1 <=> down
           /\ signals[i] = 0 <=> (~up /\ ~down)

\* both kinds of crossing occur in one table, the golden cross from a
\* difference of exactly 0
C4_Witness ==
    LET diff == DiffSigns
    IN /\ \E i \in BarIdx : i > 1 /\ signals[i] = 1 /\ diff[i - 1] = 0
       /\ \E i \in BarIdx : signals[i] = -1

\* the short average is above the long one from bar k on and not before
CrossesAboveOnceAt(diff, k) ==
    /\ k \in BarIdx
    /\ \A i \in BarIdx : i < k => diff[i] <= 0
    /\ \A i \in BarIdx : i >= k => diff[i] > 0

\* C5 as stated: if the short average crosses above the long one exactly
\* once, at bar k, the signal is +1 at k and 0 at every other bar.
C5_SingleCrossOnlySignal ==
    LET diff == DiffSigns
    IN \A k \in BarIdx :
        CrossesAboveOnceAt(diff, k) =>
            \A i \in BarIdx : signals[i] = IF i = k THEN 1 ELSE 0

\* C5 as amended: the signal is +1 at k and at no other bar; every other bar
\* carries 0, except a bar before k at which the difference drops from 0 to
\* below 0, which carries -1.
C5_SingleCrossSingleBuy ==
    LET diff == DiffSigns
    IN \A k \in BarIdx :
        CrossesAboveOnceAt(diff, k) =>
            \A i \in BarIdx :
                signals[i] =
                    IF i = k THEN 1
                    ELSE IF i > 1 /\ i < k /\ diff[i - 1] = 0 /\ diff[i] < 0
                         THEN -1
                         ELSE 0

\* a single crossing at k, after a dip of the difference below 0, with the
\* difference staying positive on a later bar
C5_Witness ==
    LET diff == DiffSigns
    IN \E k \in BarIdx :
        /\ CrossesAboveOnceAt(diff, k)
        /\ k < Len(signals)
        /\ signals[k] = 1
        /\ \E i \in BarIdx : i < k /\ signals[i] = -1

RowsUpTo(d, t) == {d[j] : j \in {x \in 1..Len(d) : d[x].ts <= t}}
SignalAtTs(d, sig, t) == sig[Cardinality(RowsUpTo(d, t))]

\* C6: no look-ahead.  Between two calls whose tables hold the same bars up
\* to timestamp t, the signal at t is the same, whatever the later bars are.
C6_NoLookAhead ==
    [][\A t \in Timestamps :
          (/\ RowsUpTo(data, t) = RowsUpTo(data', t)
           /\ \E j \in 1..Len(data) : data[j].ts = t)
          => SignalAtTs(data', signals', t) = SignalAtTs(data, signals, t)]_vars

\* a table given out of timestamp order, with a non-zero signal at a bar that
\* has later bars after it
C6_Witness ==
    /\ \E j \in 1..(Len(data) - 1) : data[j].ts > data[j + 1].ts
    /\ \E i \in BarIdx : i < Len(signals) /\ signals[i] # 0

\* C28 as stated: non-zero signals alternate in sign: between two bars with
\* +1 there is a bar with -1, and between two bars with -1 a bar with +1.
C28_SignalsAlternate ==
    \A i, j \in BarIdx :
        (i < j /\ signals[i] # 0 /\ signals[j] = signals[i])
            => \E k \in (i + 1)..(j - 1) : signals[k] = -signals[i]

\* C28 amended: between two bars with the same non-zero signal there is a
\* bar with the opposite signal or a bar on which the short and the long
\* average are exactly equal.
C28_AlternateOrTouch ==
    LET diff == DiffSigns
    IN \A i, j \in BarIdx :
        (i < j /\ signals[i] # 0 /\ signals[j] = signals[i])
            => \E k \in (i + 1)..(j - 1) :
                  signals[k] = -signals[i] \/ diff[k] = 0

\* two +1 bars with no -1 between them
C28_Witness ==
    \E i, j \in BarIdx :
        /\ i < j
        /\ signals[i] = 1
        /\ signals[j] = 1
        /\ \A k \in (i + 1)..(j - 1) : signals[k] = 0

\* C29: the signal is 0 on every bar whose 0-based index is less than
\* short_period (the 1-based rows 1..short_period): both windows cover the
\* same bars there.
C29_WarmUpIsFlat ==
    \A i \in BarIdx : i <= config.short_period => signals[i] = 0

\* short_period 2: the third bar, the first one past the warm-up, carries a
\* non-zero signal
C29_Witness ==
    /\ config.short_period = 2
    /\ Len(signals) >= 3
    /\ signals[3] # 0

(***************************************************************************)
(* SMAStrategy built from a config dict and called once on a bar table     *)
(***************************************************************************)
\* values a period may have in a config dict: an int, or the float 2.0
\* (bool values, which isinstance(x, int) accepts, are not drawn)
PeriodValues ==
    {[type |-> "int", value |-> v] : v \in -1..MaxPeriod}
        \cup {[type |-> "float", value |-> 2]}

\* the example of the documentation: short_period 2, long_period 4 on ten
\* closes
ScenarioGivenConfig ==
    [short_period |-> [type |-> "int", value |-> 2],
     long_period |-> [type |-> "int", value |-> 4]]
ScenarioCloses == <<100, 100, 100, 100, 100, 110, 110, 110, 90, 90>>
ScenarioRows == [i \in 1..Len(ScenarioCloses) |-> [ts |-> i, close |-> ScenarioCloses[i]]]

GivenConfigs ==
    Dicts({"short_period", "long_period"}, PeriodValues) \cup {ScenarioGivenConfig}

RequiredColumns == {"open", "high", "low", "close", "volume"}
\* all five columns, or one of them missing
ColumnSets == {RequiredColumns} \cup {RequiredColumns \ {c} : c \in RequiredColumns}
\* rows in any order, timestamps possibly repeated; the empty table
TableRows ==
    UNION {[1..n -> [ts : 1..MaxTableRows, close : {100, 110}]] : n \in 0..MaxTableRows}
Tables ==
    {[columns |-> c, rows |-> r] : c \in ColumnSets, r \in TableRows \cup {ScenarioRows}}

\* _validate_config, lines 100-119: "ValueError" when it raises
_validate_configAnyNumber(cfg) ==
    IF \E key \in {"short_period", "long_period"} : key \notin DOMAIN cfg
    THEN "ValueError"
    ELSE LET short_period == cfg.short_period
             long_period == cfg.long_period
         IN IF short_period.value <= 0
            THEN "ValueError"
            ELSE IF long_period.value <= 0
            THEN "ValueError"
            ELSE IF short_period.value >= long_period.value
            THEN "ValueError"
            ELSE "passed"

_validate_config(cfg) ==
    IF \E key \in {"short_period", "long_period"} : key \notin DOMAIN cfg
    THEN "ValueError"
    ELSE LET short_period == cfg.short_period
             long_period == cfg.long_period
         IN IF short_period.type # "int" \/ short_period.value <= 0
            THEN "ValueError"
            ELSE IF long_period.type # "int" \/ long_period.value <= 0
            THEN "ValueError"
            ELSE IF short_period.value >= long_period.value
            THEN "ValueError"
            ELSE "passed"

\* base_strategy.py preprocess_data: the table sorted by its index, or the
\* ValueError for missing columns
preprocess_dataAnyColumns(table) ==
    [raised |-> None, data |-> SortIndex(table.rows)]

preprocess_data(table) ==
    IF RequiredColumns \ table.columns # {}
    THEN [raised |-> "ValueError", data |-> <<>>]
    ELSE [raised |-> None, data |-> SortIndex(table.rows)]

\* DataFrame.empty: no rows or no columns
FrameEmpty(frame) == frame.n_rows = 0 \/ frame.columns = {}

\* validate_signals, base_strategy.py 84-104
validate_signals(frame) ==
    IF FrameEmpty(frame) THEN "ValueError"
    ELSE IF frame.index # "DatetimeIndex" THEN "ValueError"
    ELSE IF {"signal"} \ frame.columns # {} THEN "ValueError"
    ELSE IF {frame.signal[t] : t \in 1..Len(frame.signal)} \ {-1, 0, 1} # {}
         THEN "ValueError"
         ELSE "True"

\* OutputManager.standardize_signals, output_manager.py 69-77: a frame on
\* the bar table's index that carries the 'signal' column
standardize_signals(sig) ==
    [index |-> "DatetimeIndex", columns |-> {"signal"},
     n_rows |-> Len(sig), signal |-> sig]

\* the orders sort_index may leave rows of equal timestamp in
DistinctTimestamps(rows) ==
    \A i, j \in 1..Len(rows) : i # j => rows[i].ts # rows[j].ts
TieOrders(rows) ==
    IF DistinctTimestamps(rows) THEN {rows}
    ELSE {[i \in 1..Len(rows) |-> rows[perm[i]]] : perm \in Permutations(1..Len(rows))}

InitSMAStrategy ==
    /\ given_config \in GivenConfigs
    /\ \E table \in Tables :
         /\ columns = table.columns
         /\ data = table.rows
    /\ sma_strategy = "none"
    /\ config = None
    /\ signals = <<>>
    /\ raised = None

\* SMAStrategy(given_config): BaseStrategy.__init__ stores the dict and runs
\* _validate_config; an exception leaves no instance
SMAStrategyInit ==
    /\ sma_strategy = "none"
    /\ raised = None
    /\ IF _validate_config(given_config) = "passed"
       THEN /\ sma_strategy' = "built"
            /\ config' = [short_period |-> given_config.short_period.value,
                          long_period |-> given_config.long_period.value]
            /\ UNCHANGED raised
       ELSE /\ raised' = "ValueError"
            /\ UNCHANGED <<sma_strategy, config>>
    /\ UNCHANGED <<given_config, columns, data, signals>>

\* the strategy's one generate_signals call, on the table <<columns, data>>
GenerateSignalsOnTable ==
    /\ sma_strategy = "built"
    /\ raised = None
    /\ signals = <<>>
    /\ \E rows \in TieOrders(data) :
         LET processed == preprocess_data([columns |-> columns, rows |-> rows])
         IN IF processed.raised # None
            THEN /\ raised' = processed.raised
                 /\ UNCHANGED signals
            ELSE LET standardized_signals ==
                         standardize_signals(generate_signals(processed.data))
                 IN IF validate_signals(standardized_signals) # "True"
                    THEN /\ raised' = validate_signals(standardized_signals)
                         /\ UNCHANGED signals
                    ELSE /\ signals' = standardized_signals.signal
                         /\ UNCHANGED raised
    /\ UNCHANGED <<config, given_config, sma_strategy, columns, data>>

(***************************************************************************)
(* Claims about building and calling SMAStrategy (properties of SpecTables)*)
(***************************************************************************)
Constructed == sma_strategy = "built"
ConstructionFailed == sma_strategy = "none" /\ raised # None
Called == sma_strategy = "built" /\ (raised # None \/ signals # <<>>)

\* C17: for closes [100,100,100,100,100,110,110,110,90,90] with short_period
\* 2 and long_period 4, generate_signals emits exactly one +1, at the first
\* bar where the short average exceeds the long one, exactly one -1, at the
\* first later bar where it is below, and 0 on the other eight bars.
C17_ScenarioSignals ==
    (/\ Called
     /\ config = [short_period |-> 2, long_period |-> 4]
     /\ columns = RequiredColumns
     /\ data = ScenarioRows)
    => /\ raised = None
       /\ LET bars == 1..Len(ScenarioCloses)
              above == {i \in bars : DiffSignAt(data, i) > 0}
              up == CHOOSE i \in above : \A j \in above : i <= j
              below == {i \in bars : i > up /\ DiffSignAt(data, i) < 0}
              down == CHOOSE i \in below : \A j \in below : i <= j
          IN /\ above # {} /\ below # {}
             /\ DOMAIN signals = bars
             /\ {i \in bars : signals[i] = 1} = {up}
             /\ {i \in bars : signals[i] = -1} = {down}
             /\ Cardinality({i \in bars : signals[i] = 0}) = 8

\* the call on the ten closes has returned: +1 on the sixth bar, -1 on the
\* ninth
C17_Witness ==
    /\ Called
    /\ config = [short_period |-> 2, long_period |-> 4]
    /\ columns = RequiredColumns
    /\ data = ScenarioRows
    /\ signals # <<>>
    /\ signals[6] = 1
    /\ signals[9] = -1

IsPositiveInt(v) == v.type = "int" /\ v.value > 0
ValidGivenConfig ==
    /\ "short_period" \in DOMAIN given_config
    /\ "long_period" \in DOMAIN given_config
    /\ IsPositiveInt(given_config.short_period)
    /\ IsPositiveInt(given_config.long_period)
    /\ given_config.short_period.value < given_config.long_period.value

DecreasingTimestamps(rows) ==
    \E j \in 1..(Len(rows) - 1) : rows[j].ts > rows[j + 1].ts

ThresholdValues == {-5, 0, 10, 150}
\* the 'position_limits' dict of a config
PositionLimits ==
    Dicts({"max_position_pct"}, {50})
        \cup {[max_position |-> 50000],
              [max_position |-> 50000, max_position_pct |-> 50]}
RiskConfigs ==
    {[thresholds |-> t, position_limits |-> l] :
        t \in Dicts({"stop_loss", "take_profit", "max_daily_loss"}, ThresholdValues),
        l \in PositionLimits}
\* what the abstract _validate_config of a subclass may do
ValidateConfigOutcomes == {"passed", "raised"}
\* arguments of check_stop_loss_take_profit
EntryPrices == {100, 200}
CurrentPrices == {90, 100, 110, 220}
Positions == {-10, 0, 10}
\* arguments of check_position_limits; portfolio_value is positive (the
\* code divides by it)
ProposedPositions == {-60000, 0, 50000, 60000}
PortfolioValues == {50000, 100000}

\* __init__ lines 27-30: the fields read from the config
RiskManagerFields(cfg) ==
    [_position_limits |-> cfg.position_limits,
     _stop_loss |-> Get(cfg.thresholds, "stop_loss", 5),
     _take_profit |-> Get(cfg.thresholds, "take_profit", 15),
     _max_daily_loss |-> Get(cfg.thresholds, "max_daily_loss", 2)]

\* lines 100-104: return_rate as numerator over entry_price
ReturnRateNumerator(entry_price, current_price, pos) ==
    IF pos > 0 THEN current_price - entry_price
               ELSE entry_price - current_price

\* lines 97-129
check_stop_loss_take_profitStrict(self, entry_price, current_price, pos) ==
    IF pos = 0
    THEN [action |-> "none", reason |-> "no_position"]
    ELSE LET num == ReturnRateNumerator(entry_price, current_price, pos)
         IN IF 100 * num < -self._stop_loss * entry_price
            THEN [action |-> "stop_loss", reason |-> "stop_loss_triggered"]
            ELSE IF 100 * num >= self._take_profit * entry_price
                 THEN [action |-> "take_profit", reason |-> "take_profit_triggered"]
                 ELSE [action |-> "none", reason |-> "conditions_not_met"]

check_stop_loss_take_profit(self, entry_price, current_price, pos) ==
    IF pos = 0
    THEN [action |-> "none", reason |-> "no_position"]
    ELSE LET num == ReturnRateNumerator(entry_price, current_price, pos)
         IN IF 100 * num <= -self._stop_loss * entry_price
            THEN [action |-> "stop_loss", reason |-> "stop_loss_triggered"]
            ELSE IF 100 * num >= self._take_profit * entry_price
                 THEN [action |-> "take_profit", reason |-> "take_profit_triggered"]
                 ELSE [action |-> "none", reason |-> "conditions_not_met"]

\* lines 144-167: the pair (result['allowed'], result)
check_position_limitsLastRuleWins(self, proposed_position, portfolio_value) ==
    LET max_position == Get(self._position_limits, "max_position", portfolio_value)
        max_position_pct == Get(self._position_limits, "max_position_pct", 100)
        over_pct == 100 * Abs(proposed_position) > max_position_pct * portfolio_value
        result == [allowed |-> ~over_pct,
                   max_position |-> max_position,
                   max_position_pct |-> max_position_pct,
                   current_position_value |-> proposed_position]
    IN <<result.allowed, result>>

check_position_limits(self, proposed_position, portfolio_value) ==
    LET max_position == Get(self._position_limits, "max_position", portfolio_value)
        max_position_pct == Get(self._position_limits, "max_position_pct", 100)
        over_value == Abs(proposed_position) > max_position
        over_pct == 100 * Abs(proposed_position) > max_position_pct * portfolio_value
        result == [allowed |-> ~(over_value \/ over_pct),
                   max_position |-> max_position,
                   max_position_pct |-> max_position_pct,
                   current_position_value |-> proposed_position]
    IN <<result.allowed, result>>

\* lines 245-260: "raised" for the ValueError, else the value returned
validate_risk_configNoDailyLoss(self) ==
    IF \/ self._stop_loss < 0 \/ self._stop_loss > 100
       \/ self._take_profit < 0 \/ self._take_profit > 100
    THEN "raised"
    ELSE "True"

validate_risk_config(self) ==
    IF \/ self._stop_loss < 0 \/ self._stop_loss > 100
       \/ self._take_profit < 0 \/ self._take_profit > 100
       \/ self._max_daily_loss < 0 \/ self._max_daily_loss > 100
    THEN "raised"
    ELSE "True"

InitRiskManager ==
    /\ risk_config \in RiskConfigs
    /\ risk_manager = <<>>
    /\ risk_result = <<>>

\* __init__, lines 19-30
RiskManagerInit ==
    /\ risk_manager = <<>>
    /\ risk_result = <<>>
    /\ UNCHANGED risk_config
    /\ \E outcome \in ValidateConfigOutcomes :
         IF outcome = "passed"
         THEN /\ risk_manager' = <<RiskManagerFields(risk_config)>>
              /\ UNCHANGED risk_result
         ELSE /\ risk_result' = <<[op |-> "__init__", raised |-> "ValueError"]>>
              /\ UNCHANGED risk_manager

CheckStopLossTakeProfit ==
    /\ risk_manager # <<>>
    /\ UNCHANGED <<risk_config, risk_manager>>
    /\ \E entry_price \in EntryPrices, current_price \in CurrentPrices,
          pos \in Positions :
         risk_result' =
            <<[op |-> "check_stop_loss_take_profit",
               entry_price |-> entry_price,
               current_price |-> current_price,
               position |-> pos,
               returned |-> check_stop_loss_take_profit(
                               risk_manager[1], entry_price, current_price, pos)]>>

CheckPositionLimits ==
    /\ risk_manager # <<>>
    /\ UNCHANGED <<risk_config, risk_manager>>
    /\ \E proposed_position \in ProposedPositions,
          portfolio_value \in PortfolioValues :
         risk_result' =
            <<[op |-> "check_position_limits",
               proposed_position |-> proposed_position,
               portfolio_value |-> portfolio_value,
               returned |-> check_position_limits(
                               risk_manager[1], proposed_position, portfolio_value)]>>

ValidateRiskConfig ==
    /\ risk_manager # <<>>
    /\ UNCHANGED <<risk_config, risk_manager>>
    /\ risk_result' =
          <<[op |-> "validate_risk_config",
             returned |-> validate_risk_config(risk_manager[1])]>>

(***************************************************************************)
(* Claims about BaseRiskManager (properties of SpecRisk)                   *)
(***************************************************************************)
LastCallIs(op) == risk_result # <<>> /\ risk_result[1].op = op

InUnitRange(pct) == 0 <= pct /\ pct <= 100

\* C14: check_stop_loss_take_profit answers 'none'/'no_position' for position
\* 0; otherwise, with return_rate = (current-entry)/entry for a long and
\* (entry-current)/entry for a short position, 'stop_loss' when return_rate
\* <= -stop_loss, else 'take_profit' when return_rate >= take_profit, else
\* 'none'; with both thresholds 0 and return_rate 0 it answers 'stop_loss'.
C14_StopLossTakeProfit ==
    LastCallIs("check_stop_loss_take_profit") =>
        LET call == risk_result[1]
            self == risk_manager[1]
            gain == IF call.position > 0
                    THEN call.current_price - call.entry_price
                    ELSE call.entry_price - call.current_price
            stop == 100 * gain <= -self._stop_loss * call.entry_price
            take == 100 * gain >= self._take_profit * call.entry_price
        IN IF call.position = 0
           THEN /\ call.returned.action = "none"
                /\ call.returned.reason = "no_position"
           ELSE /\ call.returned.action =
                      IF stop THEN "stop_loss"
                      ELSE IF take THEN "take_profit" ELSE "none"
                /\ (self._stop_loss = 0 /\ self._take_profit = 0 /\ gain = 0)
                      => call.returned.action = "stop_loss"

\* both thresholds 0, the price unchanged, a short position: 'stop_loss'
C14_Witness ==
    /\ LastCallIs("check_stop_loss_take_profit")
    /\ risk_manager[1]._stop_loss = 0
    /\ risk_manager[1]._take_profit = 0
    /\ risk_result[1].position < 0
    /\ risk_result[1].current_price = risk_result[1].entry_price
    /\ risk_result[1].returned.action = "stop_loss"

\* C15: check_position_limits returns allowed = false exactly when
\* |proposed_position| > max_position or |proposed_position|/portfolio_value
\* > max_position_pct (defaults: max_position = portfolio_value,
\* max_position_pct = 1.0), and the first element of the returned pair equals
\* result['allowed'].
C15_PositionLimits ==
    LastCallIs("check_position_limits") =>
        LET call == risk_result[1]
            limits == risk_config.position_limits
            size == Abs(call.proposed_position)
            max_position == IF "max_position" \in DOMAIN limits
                            THEN limits.max_position
                            ELSE call.portfolio_value
            max_pct == IF "max_position_pct" \in DOMAIN limits
                       THEN limits.max_position_pct
                       ELSE 100
            denied == \/ size > max_position
                      \/ 100 * size > max_pct * call.portfolio_value
        IN /\ call.returned[2].allowed = ~denied
           /\ call.returned[1] = call.returned[2].allowed

\* a proposal denied by the absolute limit alone: within the default
\* percentage, above the configured max_position
C15_Witness ==
    /\ LastCallIs("check_position_limits")
    /\ "max_position" \in DOMAIN risk_config.position_limits
    /\ "max_position_pct" \notin DOMAIN risk_config.position_limits
    /\ Abs(risk_result[1].proposed_position) <= risk_result[1].portfolio_value
    /\ Abs(risk_result[1].proposed_position)
          > risk_config.position_limits.max_position
    /\ risk_result[1].returned[1] = FALSE

\* C19 as stated: no risk-manager instance holds a stop_loss, take_profit or
\* max_daily_loss outside [0,1].
C19_NoOutOfRangeInstance ==
    risk_manager # <<>> =>
        /\ InUnitRange(risk_manager[1]._stop_loss)
        /\ InUnitRange(risk_manager[1]._take_profit)
        /\ InUnitRange(risk_manager[1]._max_daily_loss)

\* C19 amended: an instance holds the three thresholds exactly as configured
\* (defaults 0.05, 0.15, 0.02), in range or not; validate_risk_config raises
\* exactly when one of them lies outside [0,1] and returns True otherwise.
C19_RangeCheckedOnRequest ==
    /\ risk_manager # <<>> =>
          /\ risk_manager[1]._stop_loss
                = Get(risk_config.thresholds, "stop_loss", 5)
          /\ risk_manager[1]._take_profit
                = Get(risk_config.thresholds, "take_profit", 15)
          /\ risk_manager[1]._max_daily_loss
                = Get(risk_config.thresholds, "max_daily_loss", 2)
    /\ LastCallIs("validate_risk_config") =>
          (risk_result[1].returned = "raised"
              <=> ~(/\ InUnitRange(risk_manager[1]._stop_loss)
                    /\ InUnitRange(risk_manager[1]._take_profit)
                    /\ InUnitRange(risk_manager[1]._max_daily_loss)))

\* an instance whose max_daily_loss alone is out of range, refused by
\* validate_risk_config
C19_Witness ==
    /\ LastCallIs("validate_risk_config")
    /\ risk_result[1].returned = "raised"
    /\ InUnitRange(risk_manager[1]._stop_loss)
    /\ InUnitRange(risk_manager[1]._take_profit)
    /\ risk_manager[1]._max_daily_loss > 100

(***************************************************************************)
(* Single calls: BaseRiskManager._calculate_max_drawdown and               *)
(* calculate_sharpe_ratio, BaseStrategy.validate_signals, and              *)
(* BacktestManager.run_backtest with its tear sheet                        *)
(***************************************************************************)
MaxSeriesLen == 3

Seqs(S, n) == UNION {[1..k -> S] : k \in 0..n}
MaxOf(S) == CHOOSE m \in S : \A x \in S : x <= m

\* portfolio values: positive amounts
PortfolioValueSeries == Seqs({50, 100, 150}, MaxSeriesLen)

\* the peak taken over the whole series
ExpandingMaxWhole(values, t) == MaxOf({values[k] : k \in 1..Len(values)})

\* values.expanding().max() at row t
ExpandingMax(values, t) == MaxOf({values[k] : k \in 1..t})

\* a / b < c / d for positive denominators
FracLess(a, b) == a.num * b.den < b.num * a.den

\* _calculate_max_drawdown: the result is the exact fraction num / den
_calculate_max_drawdown(values) ==
    IF Len(values) = 0
    THEN [num |-> 0, den |-> 1]
    ELSE LET peak == [t \in 1..Len(values) |-> ExpandingMax(values, t)]
             drawdown == [t \in 1..Len(values) |->
                             [num |-> values[t] - peak[t], den |-> peak[t]]]
             tmin == CHOOSE t \in 1..Len(values) :
                        \A u \in 1..Len(values) : ~FracLess(drawdown[u], drawdown[t])
         IN [num |-> Abs(drawdown[tmin].num), den |-> drawdown[tmin].den]

CalculateMaxDrawdown ==
    /\ \E values \in PortfolioValueSeries :
         last_call' = <<[op |-> "_calculate_max_drawdown",
                    values |-> values,
                    returned |-> _calculate_max_drawdown(values)]>>

\* daily returns, in percent
ReturnSeries == Seqs({-1, 0, 2}, MaxSeriesLen)

\* the objects a call can bind to a parameter
Series(values) == [type |-> "Series", values |-> values]
RiskManagerInstance == [type |-> "BaseRiskManager", values |-> <<>>]
DefaultRiskFreeRate == [type |-> "float", values |-> <<>>]

\* the body of calculate_sharpe_ratio(returns, risk_free_rate=0.02):
\* `returns.empty` and `returns.std()` exist on a Series only; the std of
\* one value is NaN, which is not == 0
calculate_sharpe_ratio(returns, risk_free_rate) ==
    IF returns.type # "Series" THEN "AttributeError"
    ELSE IF Len(returns.values) = 0 THEN "0.0"
    ELSE IF Len(returns.values) = 1 THEN "nan"
    ELSE IF \A t \in 1..Len(returns.values) : returns.values[t] = returns.values[1]
         THEN "0.0"
         ELSE "ratio"

\* risk_manager.calculate_sharpe_ratio(returns): the function is defined in
\* the class body without `self` and without a decorator, so the bound call
\* passes the instance as the first parameter and the series as the second
CalculateSharpeRatio ==
    /\ \E values \in ReturnSeries :
         last_call' = <<[op |-> "calculate_sharpe_ratio",
                    values |-> values,
                    returned |-> calculate_sharpe_ratio(RiskManagerInstance,
                                                        Series(values))]>>

\* signal frames: the kind of index, the columns, the 'signal' column
IndexKinds == {"DatetimeIndex", "RangeIndex"}
SignalColumns == {"signal", "position"}
FrameSignalValues == {-1, 0, 1, 2}
SignalFrames ==
    {[index |-> i, columns |-> c, n_rows |-> Len(s),
      signal |-> IF "signal" \in c THEN s ELSE <<>>] :
        i \in IndexKinds, c \in SUBSET SignalColumns,
        s \in Seqs(FrameSignalValues, MaxSeriesLen)}

ValidateSignals ==
    /\ \E frame \in SignalFrames :
         last_call' = <<[op |-> "validate_signals",
                    frame |-> frame,
                    returned |-> validate_signals(frame)]>>

\* equity curves of a run: the account value after each bar
EquityCurves == Seqs({100000, 101000}, MaxSeriesLen) \ {<<>>}
ConstantCurve(curve) == \A t \in 1..Len(curve) : curve[t] = curve[1]

\* what backtrader's SharpeRatio analyzer returns from get_analysis(): the
\* ratio is None when the returns have no deviation, else some number
SharpeValues == {-1, 0, 1}
SharpeAnalyses(curve) ==
    IF ConstantCurve(curve)
    THEN {[k \in {"sharperatio"} |-> <<>>]}
    ELSE {[k \in {"sharperatio"} |-> <<v>>] : v \in SharpeValues}

\* f"{x:.2f}": a number is written with two decimals, None raises
Format2f(x) ==
    IF x = <<>> THEN "TypeError"
    ELSE IF x[1] = -1 THEN "-1.00"
    ELSE IF x[1] = 0 THEN "0.00"
    ELSE "1.00"

\* BacktestRunner.run, sma_cross.py 143-163: the line it prints for the
\* Sharpe ratio
RunPrintsSharpe(sharpe_ratio) ==
    IF "sharperatio" \in DOMAIN sharpe_ratio /\ sharpe_ratio["sharperatio"] # <<>>
    THEN Format2f(sharpe_ratio["sharperatio"])
    ELSE "N/A"

\* _generate_tearsheet, main.py 661-809: the try block compares and formats
\* the ratio for tear_sheet.html; its except block formats it again for
\* performance_summary.txt, and an error there leaves the handler
_generate_tearsheet(result) ==
    LET sharpe_ratio == Get(result.sharpe_ratio, "sharperatio", <<0>>)
    IN IF Format2f(sharpe_ratio) # "TypeError"
       THEN [raised |-> None, file |-> "tear_sheet.html",
             sharpe_text |-> Format2f(sharpe_ratio)]
       ELSE [raised |-> "TypeError", file |-> "performance_summary.txt",
             sharpe_text |-> ""]

\* run_backtest(compare_strategies=False): runner.run() and _save_results
RunBacktest ==
    /\ \E curve \in EquityCurves :
         \E sharpe_ratio \in SharpeAnalyses(curve) :
            LET result == [sharpe_ratio |-> sharpe_ratio,
                           final_value |-> curve[Len(curve)]]
            IN last_call' = <<[op |-> "run_backtest",
                          equity_curve |-> curve,
                          printed |-> RunPrintsSharpe(sharpe_ratio),
                          result |-> result,
                          tearsheet |-> _generate_tearsheet(result)]>>

(***************************************************************************)
(* Claims about single calls (properties of SpecCalls)                     *)
(***************************************************************************)
LastOpIs(op) == last_call # <<>> /\ last_call[1].op = op
NonDecreasing(values) ==
    \A t \in 1..Len(values) : t > 1 => values[t - 1] <= values[t]

C22_SharpeZeroOnFlatSeries ==
    (/\ LastOpIs("calculate_sharpe_ratio")
     /\ \/ Len(last_call[1].values) = 0
        \/ /\ Len(last_call[1].values) >= 2
           /\ \A t \in 1..Len(last_call[1].values) : last_call[1].values[t] = last_call[1].values[1])
        => last_call[1].returned = "0.0"

\* C25: validate_signals returns True exactly for the frames that are
\* non-empty, timestamp-indexed, carry both 'signal' and 'position', and
\* whose signal values are all in {-1, 0, 1}; every other frame raises
\* ValueError.
C25_ValidFramesExactly ==
    LastOpIs("validate_signals") =>
        LET frame == last_call[1].frame
            well_formed ==
                /\ ~FrameEmpty(frame)
                /\ frame.index = "DatetimeIndex"
                /\ SignalColumns \subseteq frame.columns
                /\ \A t \in 1..Len(frame.signal) : frame.signal[t] \in {-1, 0, 1}
        IN IF well_formed
           THEN last_call[1].returned = "True"
           ELSE last_call[1].returned = "ValueError"

\* C23: for a run whose equity curve is constant, the Sharpe ratio in the
\* result record is a not-available marker distinguishable from a ratio of
\* 0, and producing and reporting it raises no error.
C23_FlatRunSharpeNotAvailable ==
    (LastOpIs("run_backtest") /\ ConstantCurve(last_call[1].equity_curve)) =>
        /\ Get(last_call[1].result.sharpe_ratio, "sharperatio", <<0>>) = <<>>
        /\ last_call[1].printed = "N/A"
        /\ last_call[1].tearsheet.raised = None

(***************************************************************************)
(* BacktestManager._run_comparison: two BacktestRunner runs on one feed    *)
(***************************************************************************)
MaxFeedBars == 3

\* the SmaCross runner and the BuyAndHold runner
Runners == {"sma", "buy_hold"}

\* run_backtest builds one PandasData feed and hands it to _run_comparison
InitComparison ==
    /\ feed_len \in 1..MaxFeedBars
    /\ feed_idx = 0
    /\ runner_pc = [r \in Runners |-> "none"]
    /\ seen = [r \in Runners |-> <<>>]

\* BacktestRunner(data, strategy_class): the runner keeps a reference to the
\* feed it is given and builds a Cerebro of its own
BacktestRunnerInit(r) ==
    /\ runner_pc[r] = "none"
    /\ runner_pc' = [runner_pc EXCEPT ![r] = "built"]
    /\ UNCHANGED <<feed_len, feed_idx, seen>>

\* run(): setup() adds the feed to the runner's cerebro and sets the cash of
\* its broker; cerebro.run() rewinds the feed before the first bar
RunStart(r) ==
    /\ runner_pc[r] = "built"
    /\ runner_pc' = [runner_pc EXCEPT ![r] = "running"]
    /\ feed_idx' = 0
    /\ UNCHANGED <<feed_len, seen>>

\* cerebro.run() advances the feed by one bar and calls the strategy's next()
RunBar(r) ==
    /\ runner_pc[r] = "running"
    /\ feed_idx < feed_len
    /\ feed_idx' = feed_idx + 1
    /\ seen' = [seen EXCEPT ![r] = Append(@, feed_idx + 1)]
    /\ UNCHANGED <<feed_len, runner_pc>>

\* the feed has no further bar: cerebro.run() returns and run() builds the
\* result record
RunReturn(r) ==
    /\ runner_pc[r] = "running"
    /\ feed_idx = feed_len
    /\ runner_pc' = [runner_pc EXCEPT ![r] = "done"]
    /\ UNCHANGED <<feed_len, feed_idx, seen>>

(***************************************************************************)
(* Claims about the comparison (properties of SpecComparison)              *)
(***************************************************************************)
\* C24: the two runs of a comparison share no mutable state, so each run
\* ends with the result of running alone on the whole feed, whatever the
\* order or interleaving of the two runs.
C24_RunsIndependent ==
    \A r \in Runners :
        runner_pc[r] = "done" => seen[r] = [i \in 1..feed_len |-> i]

(***************************************************************************)
(* Specifications                                                          *)
(***************************************************************************)
IdleStrategy ==
    /\ strategy_class = None
    /\ order = NoOrder
    /\ buy_executed = FALSE
    /\ position = 0
    /\ crossover = 0
    /\ broker_cash = 0
    /\ orders = <<>>
    /\ bar = 0

IdleSignals ==
    /\ config = None
    /\ data = <<>>
    /\ signals = <<>>

\* no SMAStrategy is being built
IdleCalls ==
    /\ given_config = None
    /\ sma_strategy = "none"
    /\ columns = {}
    /\ raised = None

IdleExecutor ==
    /\ executor_config = None
    /\ _position = 0
    /\ _cash = InitialCash
    /\ execution_results = <<>>
    /\ n_rows = 0
    /\ row = 1
    /\ pc = "idle"
    /\ acct = <<>>

IdleRisk ==
    /\ risk_config = None
    /\ risk_manager = <<>>
    /\ risk_result = <<>>

\* no single call was made
IdleFunctions == last_call = <<>>

\* no comparison is running
IdleComparison ==
    /\ feed_len = 0
    /\ feed_idx = 0
    /\ runner_pc = [r \in Runners |-> "none"]
    /\ seen = [r \in Runners |-> <<>>]

Init == InitExecutor /\ IdleStrategy /\ IdleSignals /\ IdleCalls /\ IdleRisk
        /\ IdleFunctions /\ IdleComparison

Next ==
    \/ ExecuteSignalsRow /\ UNCHANGED <<stratVars, sigVars, callVars, riskVars, fnVars, cmpVars>>
    \/ ExecuteSignalsReturn /\ UNCHANGED <<stratVars, sigVars, callVars, riskVars, fnVars, cmpVars>>

Spec == Init /\ [][Next]_vars

InitStrategyRun ==
    InitStrategy /\ IdleExecutor /\ IdleSignals /\ IdleCalls /\ IdleRisk
        /\ IdleFunctions /\ IdleComparison

NextStrategy ==
    \/ SmaCrossNext /\ UNCHANGED <<execVars, sigVars, callVars, riskVars, fnVars, cmpVars>>
    \/ SmaCrossNotifyOrder /\ UNCHANGED <<execVars, sigVars, callVars, riskVars, fnVars, cmpVars>>
    \/ BuyAndHoldNext /\ UNCHANGED <<execVars, sigVars, callVars, riskVars, fnVars, cmpVars>>
    \/ BuyAndHoldNotifyOrder /\ UNCHANGED <<execVars, sigVars, callVars, riskVars, fnVars, cmpVars>>

SpecStrategy == InitStrategyRun /\ [][NextStrategy]_vars

\* the broker goes on reporting on an order that is still live
SpecStrategyLive ==
    /\ InitStrategyRun
    /\ [][NextStrategy]_vars
    /\ WF_vars(SmaCrossNotifyOrder
                  /\ UNCHANGED <<execVars, sigVars, callVars, riskVars, fnVars, cmpVars>>)
    /\ WF_vars(BuyAndHoldNotifyOrder
                  /\ UNCHANGED <<execVars, sigVars, callVars, riskVars, fnVars, cmpVars>>)

\* the strategy was built from `config`; every table has the five columns
\* and at least one row, so no call raises
ValidCalls ==
    /\ given_config = None
    /\ sma_strategy = "built"
    /\ columns = RequiredColumns
    /\ raised = None

InitSignalsRun ==
    InitSignals /\ IdleExecutor /\ IdleStrategy /\ ValidCalls /\ IdleRisk
        /\ IdleFunctions /\ IdleComparison

NextSignals ==
    \/ GenerateSignalsExtended /\ UNCHANGED <<execVars, stratVars, callVars, riskVars, fnVars, cmpVars>>
    \/ GenerateSignalsTruncated /\ UNCHANGED <<execVars, stratVars, callVars, riskVars, fnVars, cmpVars>>
    \/ GenerateSignalsReordered /\ UNCHANGED <<execVars, stratVars, callVars, riskVars, fnVars, cmpVars>>

SpecSignals == InitSignalsRun /\ [][NextSignals]_vars

InitRiskRun ==
    InitRiskManager /\ IdleExecutor /\ IdleStrategy /\ IdleSignals /\ IdleCalls
        /\ IdleFunctions /\ IdleComparison

NextRisk ==
    \/ RiskManagerInit /\ UNCHANGED <<execVars, stratVars, sigVars, callVars, fnVars, cmpVars>>
    \/ CheckStopLossTakeProfit /\ UNCHANGED <<execVars, stratVars, sigVars, callVars, fnVars, cmpVars>>
    \/ CheckPositionLimits /\ UNCHANGED <<execVars, stratVars, sigVars, callVars, fnVars, cmpVars>>
    \/ ValidateRiskConfig /\ UNCHANGED <<execVars, stratVars, sigVars, callVars, fnVars, cmpVars>>

SpecRisk == InitRiskRun /\ [][NextRisk]_vars

InitTablesRun == InitSMAStrategy /\ IdleExecutor /\ IdleStrategy /\ IdleRisk
        /\ IdleFunctions /\ IdleComparison

NextTables ==
    \/ SMAStrategyInit /\ UNCHANGED <<execVars, stratVars, riskVars, fnVars, cmpVars>>
    \/ GenerateSignalsOnTable /\ UNCHANGED <<execVars, stratVars, riskVars, fnVars, cmpVars>>

SpecTables == InitTablesRun /\ [][NextTables]_vars

InitCallsRun ==
    IdleFunctions /\ IdleExecutor /\ IdleStrategy /\ IdleSignals /\ IdleCalls
        /\ IdleRisk /\ IdleComparison

NextCalls ==
    \/ CalculateMaxDrawdown
          /\ UNCHANGED <<execVars, stratVars, sigVars, callVars, riskVars, cmpVars>>
    \/ CalculateSharpeRatio
          /\ UNCHANGED <<execVars, stratVars, sigVars, callVars, riskVars, cmpVars>>
    \/ ValidateSignals
          /\ UNCHANGED <<execVars, stratVars, sigVars, callVars, riskVars, cmpVars>>
    \/ RunBacktest
          /\ UNCHANGED <<execVars, stratVars, sigVars, callVars, riskVars, cmpVars>>

SpecCalls == InitCallsRun /\ [][NextCalls]_vars

InitComparisonRun ==
    InitComparison /\ IdleExecutor /\ IdleStrategy /\ IdleSignals /\ IdleCalls
        /\ IdleRisk /\ IdleFunctions

NextComparison ==
    \E r \in Runners :
        \/ BacktestRunnerInit(r)
              /\ UNCHANGED <<execVars, stratVars, sigVars, callVars, riskVars, fnVars>>
        \/ RunStart(r)
              /\ UNCHANGED <<execVars, stratVars, sigVars, callVars, riskVars, fnVars>>
        \/ RunBar(r)
              /\ UNCHANGED <<execVars, stratVars, sigVars, callVars, riskVars, fnVars>>
        \/ RunReturn(r)
              /\ UNCHANGED <<execVars, stratVars, sigVars, callVars, riskVars, fnVars>>

SpecComparison == InitComparisonRun /\ [][NextComparison]_vars

====
